---- MODULE Spec2Model ----
(***************************************************************************)
(* The two service bootstraps of the repository as one state machine:      *)
(*   "todo"      - src/todo/main.go: start (listener, tracer, interceptor   *)
(*                 chain, store, RPC server, HTTP gateway);                 *)
(*   "guestbook" - src/unnamed/part_000: start, application,                *)
(*                 newApplication, watchMOTDVar (the lock-guarded message   *)
(*                 of the day and its watcher goroutine).                   *)
(* The process runs start on the main goroutine; the goroutines it spawns   *)
(* (Serve, the watcher, request handlers) interleave with it until the      *)
(* process exits.                                                           *)
(***************************************************************************)
EXTENDS Integers, Sequences, FiniteSets, TLC

\* ------------------------------------------------------------------ bounds
MaxWatch == 2
NReaders == 2
NCalls == 2

Readers == 1..NReaders
Calls == 1..NCalls
Values == {"a", "b"}
PanicValues == {"boom"}
Variants == {"todo", "guestbook"}
Envs == {"local", "gcp", "aws", "other"}

VARIABLES
  variant,    \* which bootstrap this process runs
  pc,         \* position of start on the main goroutine
  proc,       \* the process: [status, code, reason]
  exitc,      \* exit code and reason pending while deferred calls run
  defers,     \* start's deferred calls, last registered first
  res,        \* externally acquired resources: lis, tracer, db
  app,        \* the *application start holds: "none", "nil" or "ok"
  srv,        \* the grpc.Server: [state, regs, unary, stream, lateReg]
  serveG,     \* the goroutine that runs Serve
  metricsG,   \* the goroutine that serves /metrics
  gw,         \* the gateway: [conn, routes, http]
  listenTries,\* calls of net.Listen on the RPC address
  wpc,        \* position of watchMOTDVar
  snap,       \* the watcher's snap.Value
  errs,       \* history: Watch errors in a row up to now: 0, 1, 2 for more
  mu,         \* application.mu: [readers, writer, pending]
  motd,       \* application.motd, a string header: <<data word, len word>>
  sets,       \* history: the values assigned to motd, in order
  readers,    \* the handler tasks reading motd
  calls,      \* the calls in flight on the RPC server
  recovered,  \* history: a handler panic has been recovered
  todoCollection, \* the todo entities in the store
  client      \* a client of the todo service: its request and the response

vars == <<variant, pc, proc, exitc, defers, res, app, srv, serveG, metricsG, gw,
          listenTries, wpc, snap, errs, mu, motd, sets, readers, calls,
          recovered,
          todoCollection, client>>

bootVars == <<variant, pc, proc, exitc, defers, res, app, srv, serveG, metricsG,
              gw, listenTries>>
cellVars == <<wpc, snap, errs, mu, motd, sets>>
storeVars == <<todoCollection, client>>
taskVars == <<readers, calls, recovered, storeVars>>

\* ----------------------------------------------------------- interceptors
\* grpc_middleware.ChainUnaryServer: the first interceptor is the outermost.
ChainUnaryServer ==
  <<"ctxtags", "opentracing", "prometheus", "logrus", "recovery">>

ChainStreamServer ==
  <<"ctxtags", "opentracing", "prometheus", "logrus", "recovery">>

\* The chain of the server setupLocal builds for the guestbook bootstrap.
setupLocalChain ==
  <<"ctxtags", "opentracing", "prometheus", "logrus", "recovery">>

NoOutcome == [t |-> "none", code |-> "", msg |-> ""]
OkOutcome == [t |-> "ok", code |-> "OK", msg |-> ""]
ErrOutcome(code, msg) == [t |-> "err", code |-> code, msg |-> msg]
PanicOutcome(p) == [t |-> "panic", code |-> "", msg |-> p]

\* status.Errorf(codes.Internal, "%s", p)
panicHandler_Unknown(p) == ErrOutcome("Unknown", p)

panicHandler(p) == ErrOutcome("Internal", p)

\* ------------------------------------------------------------------- Init
NoRes == [lis |-> "none", tracer |-> "none", db |-> "none"]
NoSrv == [state |-> "none", regs |-> {}, unary |-> <<>>, stream |-> <<>>,
          lateReg |-> FALSE]
NoGw == [conn |-> "none", routes |-> FALSE, http |-> "none"]
IdleReader == [pc |-> "idle", got |-> <<"", "">>, startRecv |-> 0,
               startSet |-> 0, readIdx |-> 0, floor |-> 0]
IdleClient == [pc |-> "idle", op |-> "", via |-> "", code |-> "", body |-> {},
               created |-> {}]
IdleCall == [st |-> "idle", via |-> "", kind |-> "", pos |-> 0,
             out |-> NoOutcome, entered |-> <<>>, seen |-> <<>>,
             panicked |-> FALSE, afterPanic |-> FALSE]

Init ==
  /\ variant \in Variants
  /\ pc = IF variant = "todo" THEN "t_listen" ELSE "g_env"
  /\ proc = [status |-> "running", code |-> 0, reason |-> ""]
  /\ exitc = [code |-> 0, reason |-> ""]
  /\ defers = <<>>
  /\ res = NoRes
  /\ app = "none"
  /\ srv = NoSrv
  /\ serveG = "none"
  /\ metricsG = "none"
  /\ gw = NoGw
  /\ listenTries = 0
  /\ wpc = "none"
  /\ snap = ""
  /\ errs = 0
  /\ mu = [readers |-> 0, writer |-> FALSE, pending |-> FALSE]
  /\ motd = <<"", "">>
  /\ sets = <<>>
  /\ readers = [r \in Readers |-> IdleReader]
  /\ calls = [c \in Calls |-> IdleCall]
  /\ recovered = FALSE
  /\ todoCollection = {}
  /\ client = IdleClient

Running == proc.status = "running"

\* ------------------------------------------------------- process lifecycle
\* log.Fatal / log.Fatalf: os.Exit(1), deferred calls do not run.
Fatal(reason) ==
  proc' = [status |-> "exited", code |-> 1, reason |-> reason]

\* A panic on the main goroutine: deferred calls run, then the runtime exits 2.
StartPanics(reason) ==
  /\ pc' = "unwind"
  /\ exitc' = [code |-> 2, reason |-> reason]

\* start returns: deferred calls run, app.Run returns nil, main returns.
StartReturns(reason) ==
  /\ pc' = "unwind"
  /\ exitc' = [code |-> 0, reason |-> reason]

\* The cleanup setupLocal returns releases what setupLocal acquired.
cleanup(r) == [r EXCEPT !.db = IF @ = "open" THEN "closed" ELSE @]

\* closer.Close()
closerClose(r) == [r EXCEPT !.tracer = IF @ = "open" THEN "closed" ELSE @]

RunDeferred ==
  /\ Running /\ pc = "unwind" /\ defers # <<>>
  /\ defers' = Tail(defers)
  /\ \/ /\ Head(defers) = "closer.Close"
        /\ res' = closerClose(res)
        /\ UNCHANGED exitc
     \/ /\ Head(defers) = "cleanup"
        /\ res' = cleanup(res)
        /\ UNCHANGED exitc
     \/ /\ Head(defers) = "nil"
        /\ exitc' = [code |-> 2, reason |-> "nil_cleanup"]
        /\ UNCHANGED res
  /\ UNCHANGED <<variant, pc, proc, app, srv, serveG, metricsG, gw, listenTries,
                 cellVars, taskVars>>

ProcessExit ==
  /\ Running /\ pc = "unwind" /\ defers = <<>>
  /\ proc' = [status |-> "exited", code |-> exitc.code, reason |-> exitc.reason]
  /\ UNCHANGED <<variant, pc, exitc, defers, res, app, srv, serveG, metricsG, gw,
                 listenTries, cellVars, taskVars>>

\* ------------------------------------------------ start, src/todo/main.go
Todo_Listen_NoFatal ==
  /\ Running /\ pc = "t_listen"
  /\ listenTries' = listenTries + 1
  /\ \/ /\ res' = [res EXCEPT !.lis = "open"]
     \/ /\ UNCHANGED res
  /\ pc' = "t_tracer"
  /\ UNCHANGED <<variant, proc, exitc, defers, app, srv, serveG, metricsG, gw,
                 cellVars, taskVars>>

Todo_Listen ==
  /\ Running /\ pc = "t_listen"
  /\ listenTries' = listenTries + 1
  /\ \/ /\ res' = [res EXCEPT !.lis = "open"]
        /\ pc' = "t_tracer"
        /\ UNCHANGED proc
     \/ /\ Fatal("grpc_bind")
        /\ UNCHANGED <<res, pc>>
  /\ UNCHANGED <<variant, exitc, defers, app, srv, serveG, metricsG, gw,
                 cellVars, taskVars>>

Todo_InitTracer ==
  /\ Running /\ pc = "t_tracer"
  /\ \/ /\ res' = [res EXCEPT !.tracer = "open"]
        /\ defers' = <<"closer.Close">> \o defers
        /\ pc' = "t_newserver"
        /\ UNCHANGED proc
     \/ /\ Fatal("tracer_init")
        /\ UNCHANGED <<res, defers, pc>>
  /\ UNCHANGED <<variant, exitc, app, srv, serveG, metricsG, gw, listenTries,
                 cellVars, taskVars>>

Todo_NewServer ==
  /\ Running /\ pc = "t_newserver"
  /\ srv' = [srv EXCEPT !.state = "created", !.unary = ChainUnaryServer,
                        !.stream = ChainStreamServer]
  /\ pc' = "t_db"
  /\ UNCHANGED <<variant, proc, exitc, defers, res, app, serveG, metricsG, gw,
                 listenTries, cellVars, taskVars>>

\* pg.Connect returns a pool without dialing; CreateTable's error is dropped.
Todo_ConnectDB ==
  /\ Running /\ pc = "t_db"
  /\ res' = [res EXCEPT !.db = "open"]
  /\ pc' = "t_register"
  /\ UNCHANGED <<variant, proc, exitc, defers, app, srv, serveG, metricsG, gw,
                 listenTries, cellVars, taskVars>>

\* RegisterTodoServiceServer is commented out: only the metrics registration.
Todo_Register ==
  /\ Running /\ pc = "t_register"
  /\ srv' = [srv EXCEPT !.regs = @ \cup {"grpc_prometheus"},
                        !.lateReg = @ \/ (srv.state = "serving")]
  /\ pc' = "t_metrics"
  /\ UNCHANGED <<variant, proc, exitc, defers, res, app, serveG, metricsG, gw,
                 listenTries, cellVars, taskVars>>

Todo_GoMetrics ==
  /\ Running /\ pc = "t_metrics"
  /\ metricsG' = "spawned"
  /\ pc' = "t_serve"
  /\ UNCHANGED <<variant, proc, exitc, defers, res, app, srv, serveG, gw,
                 listenTries, cellVars, taskVars>>

Todo_GoServe ==
  /\ Running /\ pc = "t_serve"
  /\ serveG' = "serve"
  /\ pc' = "t_dial"
  /\ UNCHANGED <<variant, proc, exitc, defers, res, app, srv, metricsG, gw,
                 listenTries, cellVars, taskVars>>

Todo_Dial ==
  /\ Running /\ pc = "t_dial"
  /\ \/ /\ gw' = [gw EXCEPT !.conn = "connecting"]
        /\ pc' = "t_reggw"
        /\ UNCHANGED exitc
     \/ /\ StartPanics("dial")
        /\ UNCHANGED gw
  /\ UNCHANGED <<variant, proc, defers, res, app, srv, serveG, metricsG,
                 listenTries, cellVars, taskVars>>

Todo_RegisterGateway ==
  /\ Running /\ pc = "t_reggw"
  /\ \/ /\ gw' = [gw EXCEPT !.routes = TRUE]
        /\ pc' = "t_http"
        /\ UNCHANGED exitc
     \/ /\ StartPanics("register_gateway")
        /\ UNCHANGED gw
  /\ UNCHANGED <<variant, proc, defers, res, app, srv, serveG, metricsG,
                 listenTries, cellVars, taskVars>>

\* http.ListenAndServe blocks while serving; its error is dropped.
Todo_ListenAndServe ==
  /\ Running /\ pc = "t_http"
  /\ \/ /\ gw' = [gw EXCEPT !.http = "listening"]
        /\ pc' = "serving"
        /\ UNCHANGED exitc
     \/ /\ gw' = [gw EXCEPT !.http = "failed"]
        /\ StartReturns("http_bind")
  /\ UNCHANGED <<variant, proc, defers, res, app, srv, serveG, metricsG,
                 listenTries, cellVars, taskVars>>

TodoStart ==
  \/ Todo_Listen \/ Todo_InitTracer \/ Todo_NewServer \/ Todo_ConnectDB
  \/ Todo_Register \/ Todo_GoMetrics \/ Todo_GoServe \/ Todo_Dial
  \/ Todo_RegisterGateway \/ Todo_ListenAndServe

\* --------------------------------------------- start, src/unnamed/part_000
\* setupLocal builds what newApplication takes as arguments: the store
\* session and the grpc.Server with its interceptor chain.
setupLocal ==
  /\ res' = [res EXCEPT !.db = "open"]
  /\ srv' = [srv EXCEPT !.state = "created", !.unary = setupLocalChain,
                        !.stream = setupLocalChain]

\* newApplication: the application struct, motd at its zero value, and
\* go app.watchMOTDVar(motdVar).
newApplication ==
  /\ app' = "ok"
  /\ wpc' = "watch"

\* The switch on -env, the error check and defer cleanup().
App_Setup_SetsMotd ==
  /\ Running /\ pc = "g_env"
  /\ \E env \in Envs :
       \/ /\ env = "local"
          /\ setupLocal
          /\ motd' = <<"a", "a">>
          /\ pc' = "g_newapp"
          /\ UNCHANGED <<proc, app, wpc, defers>>
       \/ /\ env = "local"
          /\ Fatal("setup")
          /\ UNCHANGED <<app, res, srv, wpc, defers, pc, motd>>
       \/ /\ env \in {"gcp", "aws"}
          /\ app' = "nil"
          /\ defers' = <<"nil">> \o defers
          /\ pc' = "g_register"
          /\ UNCHANGED <<proc, res, srv, wpc, motd>>
       \/ /\ env = "other"
          /\ Fatal("unknown_env")
          /\ UNCHANGED <<app, res, srv, wpc, defers, pc, motd>>
  /\ UNCHANGED <<variant, exitc, serveG, metricsG, gw, listenTries,
                 snap, errs, mu, sets, taskVars>>

App_Setup ==
  /\ Running /\ pc = "g_env"
  /\ \E env \in Envs :
       \/ /\ env = "local"
          /\ setupLocal
          /\ pc' = "g_newapp"
          /\ UNCHANGED <<proc, app, wpc, defers>>
       \/ /\ env = "local"
          /\ Fatal("setup")
          /\ UNCHANGED <<app, res, srv, wpc, defers, pc>>
       \/ /\ env \in {"gcp", "aws"}
          /\ app' = "nil"
          /\ defers' = <<"nil">> \o defers
          /\ pc' = "g_register"
          /\ UNCHANGED <<proc, res, srv, wpc>>
       \/ /\ env = "other"
          /\ Fatal("unknown_env")
          /\ UNCHANGED <<app, res, srv, wpc, defers, pc>>
  /\ UNCHANGED <<variant, exitc, serveG, metricsG, gw, listenTries,
                 snap, errs, mu, motd, sets, taskVars>>

\* setupLocal ends with newApplication and returns; start defers cleanup.
App_NewApplication ==
  /\ Running /\ pc = "g_newapp"
  /\ newApplication
  /\ defers' = <<"cleanup">> \o defers
  /\ pc' = "g_register"
  /\ UNCHANGED <<variant, proc, exitc, res, srv, serveG, metricsG, gw,
                 listenTries, snap, errs, mu, motd, sets, taskVars>>

\* app.db of a nil *application panics.
App_RegisterServices ==
  /\ Running /\ pc = "g_register"
  /\ \/ /\ app = "ok"
        /\ srv' = [srv EXCEPT !.regs = @ \cup {"TodoService"},
                              !.lateReg = @ \/ (srv.state = "serving")]
        /\ pc' = "g_metrics"
        /\ UNCHANGED exitc
     \/ /\ app = "nil"
        /\ StartPanics("nil_app")
        /\ UNCHANGED srv
  /\ UNCHANGED <<variant, proc, defers, res, app, serveG, metricsG, gw,
                 listenTries, cellVars, taskVars>>

initPrometheus ==
  /\ Running /\ pc = "g_metrics"
  /\ metricsG' = "spawned"
  /\ pc' = "g_listen"
  /\ UNCHANGED <<variant, proc, exitc, defers, res, app, srv, serveG, gw,
                 listenTries, cellVars, taskVars>>

App_Listen ==
  /\ Running /\ pc = "g_listen"
  /\ listenTries' = listenTries + 1
  /\ \/ /\ res' = [res EXCEPT !.lis = "open"]
        /\ pc' = "g_serve"
        /\ UNCHANGED exitc
     \/ /\ StartPanics("grpc_bind")
        /\ UNCHANGED res
  /\ UNCHANGED <<variant, proc, defers, app, srv, serveG, metricsG, gw,
                 cellVars, taskVars>>

App_GoServe_Skipped ==
  /\ Running /\ pc = "g_serve"
  /\ pc' = "g_dial"
  /\ UNCHANGED <<variant, proc, exitc, defers, res, app, srv, serveG, metricsG,
                 gw, listenTries, cellVars, taskVars>>

App_GoServe ==
  /\ Running /\ pc = "g_serve"
  /\ serveG' = "reflect"
  /\ pc' = "g_dial"
  /\ UNCHANGED <<variant, proc, exitc, defers, res, app, srv, metricsG, gw,
                 listenTries, cellVars, taskVars>>

\* A Dial error is logged; conn stays nil.
App_Dial ==
  /\ Running /\ pc = "g_dial"
  /\ \/ gw' = [gw EXCEPT !.conn = "connecting"]
     \/ gw' = [gw EXCEPT !.conn = "nil"]
  /\ pc' = "g_reggw"
  /\ UNCHANGED <<variant, proc, exitc, defers, res, app, srv, serveG, metricsG,
                 listenTries, cellVars, taskVars>>

\* A registration error is logged; the mux then has no routes.
App_RegisterGateway ==
  /\ Running /\ pc = "g_reggw"
  /\ \/ gw' = [gw EXCEPT !.routes = TRUE]
     \/ gw' = [gw EXCEPT !.routes = FALSE]
  /\ pc' = "g_promreg"
  /\ UNCHANGED <<variant, proc, exitc, defers, res, app, srv, serveG, metricsG,
                 listenTries, cellVars, taskVars>>

\* grpc_prometheus.Register(app.grpcServer), after the Serve goroutine started.
App_RegisterMetrics ==
  /\ Running /\ pc = "g_promreg"
  /\ srv' = [srv EXCEPT !.regs = @ \cup {"grpc_prometheus"},
                        !.lateReg = @ \/ (srv.state = "serving")]
  /\ pc' = "g_http"
  /\ UNCHANGED <<variant, proc, exitc, defers, res, app, serveG, metricsG, gw,
                 listenTries, cellVars, taskVars>>

App_ListenAndServe ==
  /\ Running /\ pc = "g_http"
  /\ \/ /\ gw' = [gw EXCEPT !.http = "listening"]
        /\ pc' = "serving"
        /\ UNCHANGED exitc
     \/ /\ gw' = [gw EXCEPT !.http = "failed"]
        /\ StartReturns("http_bind")
  /\ UNCHANGED <<variant, proc, defers, res, app, srv, serveG, metricsG,
                 listenTries, cellVars, taskVars>>

AppStart ==
  \/ App_Setup \/ App_NewApplication \/ App_RegisterServices \/ initPrometheus \/ App_Listen
  \/ App_GoServe \/ App_Dial \/ App_RegisterGateway \/ App_RegisterMetrics
  \/ App_ListenAndServe

\* ------------------------------------------------------ the Serve goroutine
\* reflection.Register(app.grpcServer), first statement of the goroutine.
Serve_Reflection ==
  /\ Running /\ serveG = "reflect"
  /\ srv' = [srv EXCEPT !.regs = @ \cup {"reflection"},
                        !.lateReg = @ \/ (srv.state = "serving")]
  /\ serveG' = "serve"
  /\ UNCHANGED <<variant, pc, proc, exitc, defers, res, app, metricsG, gw,
                 listenTries, cellVars, taskVars>>

\* Serve(lis): the server accepts connections from here on.
Serve_Serve ==
  /\ Running /\ serveG = "serve"
  /\ srv' = [srv EXCEPT !.state = "serving"]
  /\ serveG' = "serving"
  /\ UNCHANGED <<variant, pc, proc, exitc, defers, res, app, metricsG, gw,
                 listenTries, cellVars, taskVars>>

\* The /metrics goroutine: http.ListenAndServe, its error dropped.
Metrics_ListenAndServe ==
  /\ Running /\ metricsG = "spawned"
  /\ \/ metricsG' = "listening"
     \/ metricsG' = "failed"
  /\ UNCHANGED <<variant, pc, proc, exitc, defers, res, app, srv, serveG, gw,
                 listenTries, cellVars, taskVars>>

\* ------------------------------------- the gateway's client connection
\* Dial does not block: the connection becomes ready once the server accepts.
Conn_Ready ==
  /\ Running /\ gw.conn = "connecting" /\ srv.state = "serving"
  /\ gw' = [gw EXCEPT !.conn = "ready"]
  /\ UNCHANGED <<variant, pc, proc, exitc, defers, res, app, srv, serveG,
                 metricsG, listenTries, cellVars, taskVars>>

Conn_Fail ==
  /\ Running /\ gw.conn = "connecting" /\ srv.state # "serving"
  /\ gw' = [gw EXCEPT !.conn = "transient_failure"]
  /\ UNCHANGED <<variant, pc, proc, exitc, defers, res, app, srv, serveG,
                 metricsG, listenTries, cellVars, taskVars>>

Conn_Retry ==
  /\ Running /\ gw.conn = "transient_failure"
  /\ gw' = [gw EXCEPT !.conn = "connecting"]
  /\ UNCHANGED <<variant, pc, proc, exitc, defers, res, app, srv, serveG,
                 metricsG, listenTries, cellVars, taskVars>>

Bootstrap ==
  \/ TodoStart \/ AppStart \/ RunDeferred \/ ProcessExit
  \/ Serve_Reflection \/ Serve_Serve
  \/ Conn_Ready \/ Conn_Fail \/ Conn_Retry

\* ---------------------------------------------------- calls on the server
Stages == {"ctxtags", "opentracing", "prometheus", "logrus", "recovery"}
Kinds == {"unary", "stream"}
HandlerOutcomes ==
  {OkOutcome, ErrOutcome("NotFound", "")} \cup {PanicOutcome(p) : p \in PanicValues}

Chain(c) == IF calls[c].kind = "unary" THEN srv.unary ELSE srv.stream

\* What a stage observes of the call it wrapped when control comes back to it.
Observed(out) == IF out.t = "panic" THEN "PANIC" ELSE out.code

\* What a stage hands to the stage outside it. grpc_recovery recovers the
\* panic and returns panicHandler's error; every other stage has no recover.
StageReturn_NoRecover(stage, out) == out

StageReturn(stage, out) ==
  IF stage = "recovery" /\ out.t = "panic" THEN panicHandler(out.msg) ELSE out

\* The server dispatches a call: a method of a registered service runs
\* through the chain, outermost stage first, down to the handler; any other
\* method is answered Unimplemented without entering the chain.
Dispatch(c, via, kind) ==
  IF "TodoService" \in srv.regs
  THEN LET chain == IF kind = "unary" THEN srv.unary ELSE srv.stream
       IN calls' = [calls EXCEPT ![c] =
            [IdleCall EXCEPT !.st = "handler", !.via = via, !.kind = kind,
                             !.pos = Len(chain), !.entered = chain,
                             !.seen = [s \in Stages |-> "-"],
                             !.afterPanic = recovered]]
  ELSE calls' = [calls EXCEPT ![c] =
         [IdleCall EXCEPT !.st = "done", !.via = via, !.kind = kind,
                          !.out = ErrOutcome("Unimplemented", ""),
                          !.afterPanic = recovered]]

\* The gateway answers a request itself, without a call on the server.
Refuse(c, code) ==
  calls' = [calls EXCEPT ![c] =
    [IdleCall EXCEPT !.st = "done", !.via = "gw", !.kind = "unary",
                     !.out = ErrOutcome(code, ""), !.afterPanic = recovered]]

\* A client calls the RPC server directly.
Call_Issue(c) ==
  /\ Running /\ calls[c].st = "idle" /\ srv.state = "serving"
  /\ \E kind \in Kinds : Dispatch(c, "rpc", kind)
  /\ UNCHANGED <<bootVars, cellVars, readers, recovered, storeVars>>

\* An HTTP request arrives at the gateway, which forwards it over conn: no
\* route without a registered handler, a nil conn panics inside the request
\* (net/http recovers it), a failing conn is Unavailable, a connecting one
\* makes the request wait.
Gateway_Request_InProcess(c) ==
  /\ Running /\ calls[c].st = "idle" /\ gw.http = "listening"
  /\ calls' = [calls EXCEPT ![c] =
       [IdleCall EXCEPT !.st = "handler", !.via = "gw", !.kind = "unary",
                        !.afterPanic = recovered]]
  /\ UNCHANGED <<bootVars, cellVars, readers, recovered, storeVars>>

Gateway_Request(c) ==
  /\ Running /\ calls[c].st = "idle" /\ gw.http = "listening"
  /\ \/ /\ ~gw.routes
        /\ Refuse(c, "HTTP404")
     \/ /\ gw.routes /\ gw.conn = "nil"
        /\ Refuse(c, "HTTPAborted")
     \/ /\ gw.routes /\ gw.conn = "transient_failure"
        /\ Refuse(c, "Unavailable")
     \/ /\ gw.routes /\ gw.conn = "connecting"
        /\ calls' = [calls EXCEPT ![c] =
             [IdleCall EXCEPT !.st = "wait", !.via = "gw", !.kind = "unary",
                              !.afterPanic = recovered]]
     \/ /\ gw.routes /\ gw.conn = "ready"
        /\ Dispatch(c, "gw", "unary")
  /\ UNCHANGED <<bootVars, cellVars, readers, recovered, storeVars>>

\* A request that found conn connecting waits for its next state.
Gateway_Forward(c) ==
  /\ Running /\ calls[c].st = "wait"
  /\ \/ /\ gw.conn = "ready"
        /\ Dispatch(c, "gw", "unary")
     \/ /\ gw.conn = "transient_failure"
        /\ Refuse(c, "Unavailable")
  /\ UNCHANGED <<bootVars, cellVars, readers, recovered, storeVars>>

\* The service method runs: it returns, returns an error, or panics.
Call_Handler(c) ==
  /\ Running /\ calls[c].st = "handler"
  /\ \E o \in HandlerOutcomes :
       calls' = [calls EXCEPT ![c].st = "up", ![c].out = o,
                              ![c].panicked = (o.t = "panic")]
  /\ UNCHANGED <<bootVars, cellVars, readers, recovered, storeVars>>

\* Control returns to stage pos. A panic that leaves the outermost stage
\* crashes the process from the call's goroutine: exit status 2, no defers.
Call_Leave(c) ==
  /\ Running /\ calls[c].st = "up" /\ calls[c].pos > 0
  /\ LET stage == Chain(c)[calls[c].pos]
         out == StageReturn(stage, calls[c].out)
         last == calls[c].pos = 1
     IN /\ recovered' = (recovered \/ (calls[c].out.t = "panic" /\ out.t # "panic"))
        /\ calls' = [calls EXCEPT ![c].pos = @ - 1, ![c].out = out,
                        ![c].seen = [@ EXCEPT ![stage] = Observed(calls[c].out)],
                        ![c].st = IF last /\ out.t # "panic" THEN "done" ELSE @]
        /\ IF last /\ out.t = "panic"
           THEN proc' = [status |-> "exited", code |-> 2, reason |-> "handler_panic"]
           ELSE UNCHANGED proc
  /\ UNCHANGED <<variant, pc, exitc, defers, res, app, srv, serveG, metricsG, gw,
                 listenTries, cellVars, readers, storeVars>>

\* The client has its response.
Call_Finish(c) ==
  /\ Running /\ calls[c].st = "done"
  /\ calls' = [calls EXCEPT ![c] = IdleCall]
  /\ UNCHANGED <<bootVars, cellVars, readers, recovered, storeVars>>

Serving ==
  \E c \in Calls :
    \/ Call_Issue(c) \/ Gateway_Request(c) \/ Gateway_Forward(c)
    \/ Call_Handler(c) \/ Call_Leave(c) \/ Call_Finish(c)

\* ------------------------------------- the todo service and a client of it
Todos == {"t1", "t2"}
Ops == {"list", "create"}

\* The handlers of the todo service over its collection.
TodoService_List(coll) == coll

TodoService_Create(coll, t) == coll \cup {t}

\* How a request ends before any handler runs: the gateway answers it itself
\* (no route, nil conn, failing conn), or the server has no todo service.
Refusal(via) ==
  IF via = "gw" /\ ~gw.routes THEN "HTTP404"
  ELSE IF via = "gw" /\ gw.conn = "nil" THEN "HTTPAborted"
  ELSE IF via = "gw" /\ gw.conn = "transient_failure" THEN "Unavailable"
  ELSE IF "TodoService" \notin srv.regs THEN "Unimplemented"
  ELSE ""

\* The client sends one request, over HTTP to the gateway or as an RPC call to
\* the server, and has its response. A gateway request waits while conn is
\* connecting.
Client_Call ==
  /\ Running /\ client.pc = "idle"
  /\ \E op \in Ops, via \in {"gw", "rpc"}, t \in Todos :
       /\ via = "rpc" => srv.state = "serving"
       /\ via = "gw" => gw.http = "listening" /\ gw.conn # "connecting"
       /\ IF Refusal(via) # ""
          THEN /\ client' = [client EXCEPT !.pc = "done", !.op = op, !.via = via,
                                           !.code = Refusal(via), !.body = {}]
               /\ UNCHANGED todoCollection
          ELSE IF op = "list"
          THEN /\ client' = [client EXCEPT !.pc = "done", !.op = op, !.via = via,
                                !.code = "OK",
                                !.body = TodoService_List(todoCollection)]
               /\ UNCHANGED todoCollection
          ELSE /\ todoCollection' = TodoService_Create(todoCollection, t)
               /\ client' = [client EXCEPT !.pc = "done", !.op = op, !.via = via,
                                !.code = "OK", !.body = {t},
                                !.created = @ \cup {t}]
  /\ UNCHANGED <<bootVars, cellVars, readers, calls, recovered>>

\* The client is ready for its next request.
Client_Next ==
  /\ Running /\ client.pc = "done"
  /\ client' = [IdleClient EXCEPT !.created = client.created]
  /\ UNCHANGED <<bootVars, cellVars, readers, calls, recovered, todoCollection>>

Client == Client_Call \/ Client_Next

\* ------------------------------------- watchMOTDVar, src/unnamed/part_000
WatchError == "<error>"

\* Values the watcher has received from Watch so far.
nRecv ==
  Len(sets) + (IF wpc \in {"logupd", "lock", "lockwait", "store1", "store2"}
               THEN 1 ELSE 0)

\* v.Watch(ctx) returns a snapshot or an error.
Watch_Watch ==
  /\ Running /\ wpc = "watch" /\ Len(sets) < MaxWatch
  /\ \E r \in Values \cup {WatchError} :
       IF r = WatchError
       THEN /\ wpc' = "logerr"
            /\ errs' = IF errs < 2 THEN errs + 1 ELSE errs
            /\ UNCHANGED snap
       ELSE wpc' = "logupd" /\ snap' = r /\ errs' = 0
  /\ UNCHANGED <<bootVars, mu, motd, sets, taskVars>>

\* log.Printf; continue
Watch_LogError_Return ==
  /\ Running /\ wpc = "logerr"
  /\ wpc' = "none"
  /\ UNCHANGED <<bootVars, snap, mu, motd, sets, errs, taskVars>>

Watch_LogError ==
  /\ Running /\ wpc = "logerr"
  /\ wpc' = "watch"
  /\ UNCHANGED <<bootVars, snap, mu, motd, sets, errs, taskVars>>

\* log.Println("updated MOTD to", snap.Value)
Watch_LogUpdate ==
  /\ Running /\ wpc = "logupd"
  /\ wpc' = "lock"
  /\ UNCHANGED <<bootVars, snap, mu, motd, sets, errs, taskVars>>

\* app.mu.Lock(): the writer announces itself, which holds back new readers,
\* then waits for the readers inside to leave.
Watch_LockAnnounce ==
  /\ Running /\ wpc = "lock"
  /\ mu' = [mu EXCEPT !.pending = TRUE]
  /\ wpc' = "lockwait"
  /\ UNCHANGED <<bootVars, snap, motd, sets, errs, taskVars>>

Watch_LockAcquire_NoWait ==
  /\ Running /\ wpc = "lockwait"
  /\ mu' = [mu EXCEPT !.pending = FALSE, !.writer = TRUE]
  /\ wpc' = "store1"
  /\ UNCHANGED <<bootVars, snap, motd, sets, errs, taskVars>>

Watch_LockAcquire ==
  /\ Running /\ wpc = "lockwait" /\ mu.readers = 0
  /\ mu' = [mu EXCEPT !.pending = FALSE, !.writer = TRUE]
  /\ wpc' = "store1"
  /\ UNCHANGED <<bootVars, snap, motd, sets, errs, taskVars>>

\* app.motd = snap.Value.(string): a string is two words, stored one by one.
Watch_StoreData_Skip ==
  /\ Running /\ wpc = "store1"
  /\ wpc' = "store2"
  /\ UNCHANGED <<bootVars, snap, mu, motd, sets, errs, taskVars>>

Watch_StoreData ==
  /\ Running /\ wpc = "store1"
  /\ motd' = [motd EXCEPT ![1] = snap]
  /\ wpc' = "store2"
  /\ UNCHANGED <<bootVars, snap, mu, sets, errs, taskVars>>

Watch_StoreLen_Skip ==
  /\ Running /\ wpc = "store2"
  /\ sets' = Append(sets, snap)
  /\ wpc' = "unlock"
  /\ UNCHANGED <<bootVars, snap, mu, motd, errs, taskVars>>

Watch_StoreLen ==
  /\ Running /\ wpc = "store2"
  /\ motd' = [motd EXCEPT ![2] = snap]
  /\ sets' = Append(sets, snap)
  /\ wpc' = "unlock"
  /\ UNCHANGED <<bootVars, snap, mu, errs, taskVars>>

\* app.mu.Unlock()
Watch_Unlock_Keep ==
  /\ Running /\ wpc = "unlock"
  /\ wpc' = "watch"
  /\ UNCHANGED <<bootVars, snap, mu, motd, sets, errs, taskVars>>

Watch_Unlock ==
  /\ Running /\ wpc = "unlock"
  /\ mu' = [mu EXCEPT !.writer = FALSE]
  /\ wpc' = "watch"
  /\ UNCHANGED <<bootVars, snap, motd, sets, errs, taskVars>>

watchMOTDVar ==
  \/ Watch_Watch \/ Watch_LogError \/ Watch_LogUpdate \/ Watch_LockAnnounce
  \/ Watch_LockAcquire \/ Watch_StoreData \/ Watch_StoreLen \/ Watch_Unlock

\* --------------------------------------------- get: a handler reads motd
\* The latest assignment a get that has already returned has read.
LatestReturned ==
  LET done == {readers[q].readIdx : q \in {q \in Readers : readers[q].pc = "ret"}}
  IN IF done = {} THEN 0 ELSE CHOOSE i \in done : \A j \in done : j <= i

\* The read side of the cell: RLock, read the string, RUnlock. A get starts;
\* recv, set and f are the history it records of the moment it starts.
Get_Start(r, recv, set, f) ==
  /\ Running /\ app = "ok" /\ readers[r].pc = "idle"
  /\ readers' = [readers EXCEPT ![r] =
       [IdleReader EXCEPT !.pc = "rlock", !.startRecv = recv,
                          !.startSet = set, !.floor = f]]
  /\ UNCHANGED <<bootVars, cellVars, calls, recovered, storeVars>>

\* A get that records what the watcher had received and assigned.
Get_Call(r) == Get_Start(r, nRecv, Len(sets), 0)

\* A get that records the gets that returned before it.
Get_CallAfter(r) == Get_Start(r, 0, 0, LatestReturned)

Get_RLock(r) ==
  /\ Running /\ readers[r].pc = "rlock"
  /\ ~mu.writer /\ ~mu.pending
  /\ mu' = [mu EXCEPT !.readers = @ + 1]
  /\ readers' = [readers EXCEPT ![r].pc = "load1"]
  /\ UNCHANGED <<bootVars, wpc, snap, errs, motd, sets, calls, recovered, storeVars>>

Get_LoadData(r) ==
  /\ Running /\ readers[r].pc = "load1"
  /\ readers' = [readers EXCEPT ![r].pc = "load2", ![r].got[1] = motd[1],
                                ![r].readIdx = Len(sets)]
  /\ UNCHANGED <<bootVars, cellVars, calls, recovered, storeVars>>

Get_LoadLen(r) ==
  /\ Running /\ readers[r].pc = "load2"
  /\ readers' = [readers EXCEPT ![r].pc = "runlock", ![r].got[2] = motd[2]]
  /\ UNCHANGED <<bootVars, cellVars, calls, recovered, storeVars>>

Get_RUnlock(r) ==
  /\ Running /\ readers[r].pc = "runlock"
  /\ mu' = [mu EXCEPT !.readers = @ - 1]
  /\ readers' = [readers EXCEPT ![r].pc = "ret"]
  /\ UNCHANGED <<bootVars, wpc, snap, errs, motd, sets, calls, recovered, storeVars>>

\* The caller has the value; the task is free for its next get.
Get_Return(r) ==
  /\ Running /\ readers[r].pc = "ret"
  /\ readers' = [readers EXCEPT ![r] = IdleReader]
  /\ UNCHANGED <<bootVars, cellVars, calls, recovered, storeVars>>

Reading ==
  \E r \in Readers :
    \/ Get_Call(r) \/ Get_RLock(r) \/ Get_LoadData(r) \/ Get_LoadLen(r)
    \/ Get_RUnlock(r) \/ Get_Return(r)

ReadingInOrder ==
  \E r \in Readers :
    \/ Get_CallAfter(r) \/ Get_RLock(r) \/ Get_LoadData(r) \/ Get_LoadLen(r)
    \/ Get_RUnlock(r) \/ Get_Return(r)

\* --------------------------------------------------------- specifications
\* The whole process.
Next ==
  \/ Bootstrap \/ Metrics_ListenAndServe \/ Serving \/ Client \/ watchMOTDVar
  \/ Reading

Spec == Init /\ [][Next]_vars

\* The tasks share no state beyond what each specification below keeps
\* together, so each composes the tasks its properties read.
\* Startup and shutdown of both bootstraps, with the watcher.
NextBoot == Bootstrap \/ Metrics_ListenAndServe \/ watchMOTDVar

SpecBoot == Init /\ [][NextBoot]_vars

\* Both bootstraps with the calls the RPC server and the gateway serve.
NextCalls == Bootstrap \/ Serving

SpecCalls == Init /\ [][NextCalls]_vars

\* Both bootstraps with one client of the todo service.
NextStore == Bootstrap \/ Client

SpecStore == Init /\ [][NextStore]_vars

\* The application's cell from its construction on: the watcher and readers.
NextCell == App_Setup \/ App_NewApplication \/ watchMOTDVar \/ Reading

SpecCell == Init /\ [][NextCell]_vars

\* The cell with the order of its gets recorded.
NextCellOrder ==
  App_Setup \/ App_NewApplication \/ watchMOTDVar \/ ReadingInOrder

SpecCellOrder == Init /\ [][NextCellOrder]_vars

\* The cell, with the scheduler running the watcher goroutine whenever it
\* stays runnable.
SpecCellFair == SpecCellOrder /\ WF_vars(watchMOTDVar)

\* ------------------------------------------------------------- properties
Returned(r) == readers[r].pc = "ret"
SetValues == {sets[i] : i \in 1..Len(sets)}
\* The value motd holds after i assignments.
ValueAt(i) == IF i = 0 THEN "" ELSE sets[i]
Done(c) == calls[c].st = "done"
Exited == proc.status = "exited"

\* C1 as stated: every get, also one before the first set, returns a value
\* that was passed to some set, never a mixture of two writes.
C1_GetReturnsSetValue ==
  \A r \in Readers :
    Returned(r) =>
      /\ readers[r].got[1] = readers[r].got[2]
      /\ readers[r].got[1] \in SetValues

\* C1 amended: every get returns, whole, either a value passed to a set or
\* the empty value the cell was constructed with, the latter only while no
\* set had completed when it read.
C1_GetReturnsInitialOrSetValue ==
  \A r \in Readers :
    Returned(r) =>
      /\ readers[r].got[1] = readers[r].got[2]
      /\ \/ readers[r].got[1] \in SetValues
         \/ readers[r].got[1] = "" /\ readers[r].readIdx = 0

\* A get that overlapped a set has returned that set's value while another
\* get is inside the lock.
C1_Witness ==
  \E r \in Readers :
    /\ Returned(r)
    /\ readers[r].readIdx > readers[r].startSet
    /\ readers[r].got[1] \in Values
    /\ mu.readers > 0

\* C2: a panicking handler's call ends with an Internal error, the panic
\* never terminates the process, and every other call that reached its
\* handler, before or after the panic, ends with its handler's own result.
C2_PanicIsInternalAndIsolated ==
  /\ proc.reason # "handler_panic"
  /\ \A c \in Calls :
       Done(c) /\ calls[c].entered # <<>> =>
         IF calls[c].panicked
         THEN calls[c].out.t = "err" /\ calls[c].out.code = "Internal"
         ELSE calls[c].out \in {OkOutcome, ErrOutcome("NotFound", "")}

\* One call has ended Internal after its handler panicked, and a call issued
\* after that panic has been served while the process runs on.
C2_Witness ==
  /\ Running
  /\ \E c, d \in Calls :
       /\ Done(c) /\ calls[c].panicked /\ calls[c].out.code = "Internal"
       /\ Done(d) /\ calls[d].afterPanic /\ calls[d].out = OkOutcome

\* C3 as stated: a get that starts after the watcher received a value
\* returns that value or a later one, never the value that preceded it.
C3_GetAfterReceiptReturnsIt ==
  \A r \in Readers :
    Returned(r) => readers[r].readIdx >= readers[r].startRecv

\* C3 amended: a get that starts after the watcher assigned a value to motd
\* returns that value, or the value of a later assignment.
C3_GetAfterSetReturnsIt ==
  \A r \in Readers :
    Returned(r) =>
      /\ readers[r].readIdx >= readers[r].startSet
      /\ readers[r].got = <<ValueAt(readers[r].readIdx), ValueAt(readers[r].readIdx)>>

\* A get that started after the second assignment has returned its value.
C3_Witness ==
  \E r \in Readers :
    /\ Returned(r)
    /\ readers[r].startSet = 2
    /\ readers[r].readIdx = 2
    /\ readers[r].got[1] = sets[2]

\* C4: unary and streaming calls enter the stages in the order tagging,
\* tracing, metrics, logging, recovery, so recovery is the stage that calls
\* the handler; when the handler panics only recovery observes the panic and
\* every stage outside it observes a call that failed with the Internal error.
C4_RecoveryInnermost ==
  \A c \in Calls :
    /\ calls[c].entered # <<>> =>
         calls[c].entered =
           <<"ctxtags", "opentracing", "prometheus", "logrus", "recovery">>
    /\ calls[c].panicked =>
         \A s \in Stages \ {"recovery"} : calls[c].seen[s] \in {"-", "Internal"}
    /\ Done(c) /\ calls[c].panicked =>
         \A s \in Stages \ {"recovery"} : calls[c].seen[s] = "Internal"

\* A unary and a streaming call whose handlers panicked have both completed.
C4_Witness ==
  \E c, d \in Calls :
    /\ Done(c) /\ calls[c].kind = "unary" /\ calls[c].panicked
    /\ Done(d) /\ calls[d].kind = "stream" /\ calls[d].panicked
    /\ calls[c].seen["recovery"] = "PANIC"
    /\ calls[d].seen["logrus"] = "Internal"

C6_HttpBindFailureExitsNonZero ==
  Exited /\ proc.reason = "http_bind" => proc.code # 0 /\ res.lis # "open"

\* C7: a failure of grpc.Dial or of the gateway handler registration never
\* terminates the process.
C7_GatewayConnectFailureNotFatal ==
  ~(Exited /\ proc.reason \in {"dial", "register_gateway"})

\* The exits that follow a failed startup step: a listener that cannot bind,
\* a dependency that cannot be constructed, an -env without a setup.
StartupErrors ==
  {"grpc_bind", "http_bind", "tracer_init", "setup", "unknown_env", "nil_app",
   "nil_cleanup"}

\* C8: the process terminates only on a fatal startup error; a gateway
\* connection or construction error, a handler panic, a business error, a
\* watch error or a watched value never terminates it.
C8_OnlyStartupErrorsTerminate ==
  Exited => proc.reason \in StartupErrors

\* C9: a gateway request the gateway could forward over a ready connection
\* reaches a handler through the chain; the others fail on their own.
C9_GatewayRequestServedOnceReady ==
  \A c \in Calls :
    Done(c) /\ calls[c].via = "gw" =>
      \/ calls[c].out.code \in {"Unavailable", "HTTPAborted", "HTTP404"}
      \/ calls[c].entered # <<>>

\* C10: when the process exits, every resource start acquired is released.
C10_ResourcesReleasedOnExit ==
  Exited => res.lis # "open" /\ res.tracer # "open" /\ res.db # "open"

\* C11: with the server and the gateway up, an HTTP list on the empty store
\* succeeds with an empty list, and after a create made as an RPC call an
\* HTTP list returns exactly the created entities.
C11_GatewayListReturnsStore ==
  /\ client.pc = "done" /\ client.op = "list" /\ client.via = "gw"
  /\ client.code \notin {"HTTP404", "HTTPAborted", "Unavailable"}
  => client.code = "OK" /\ client.body = client.created

\* C12: while the process runs, no resource of the bootstrap (store
\* connection, tracer) has been released while the RPC server is still
\* accepting and serving calls.
C12_ServerStopsBeforeRelease ==
  Running /\ (res.db = "closed" \/ res.tracer = "closed") =>
    srv.state # "serving"

\* C13: when Watch returns an error the watcher logs it and calls Watch
\* again at once: the step that leaves the logging changes neither motd nor
\* the lock nor the process, the watcher is never stopped or held back by
\* the error, and this is so however many errors came in a row.
C13_WatchErrorRetries ==
  /\ [](Running /\ wpc = "logerr" => ENABLED Watch_LogError)
  /\ [](Running /\ wpc = "watch" /\ errs > 0 /\ Len(sets) < MaxWatch =>
         ENABLED Watch_Watch)
  /\ [][wpc = "logerr" /\ wpc' # "logerr" =>
          /\ wpc' = "watch"
          /\ motd' = motd /\ sets' = sets /\ mu' = mu /\ proc' = proc]_vars

\* After a published value the watcher is back in Watch following two
\* errors in a row, with the value still in place.
C13_Witness ==
  /\ Running /\ wpc = "watch" /\ errs = 2
  /\ Len(sets) = 1 /\ motd = <<sets[1], sets[1]>>

\* C14: a get that starts after another get has returned returns the value
\* of the assignment the earlier one returned, or of a later assignment,
\* never of an earlier one.
C14_ReadsMonotonic ==
  \A r \in Readers :
    Returned(r) =>
      /\ readers[r].readIdx >= readers[r].floor
      /\ readers[r].got = <<ValueAt(readers[r].readIdx), ValueAt(readers[r].readIdx)>>

\* One get has returned the first assigned value; a get that started after
\* that has returned the second.
C14_Witness ==
  \E q, r \in Readers :
    /\ Returned(q) /\ readers[q].readIdx = 1 /\ readers[q].got[1] = sets[1]
    /\ Returned(r) /\ readers[r].floor = 1 /\ readers[r].readIdx = 2
    /\ readers[r].got[2] = sets[2]

\* C15: motd is empty when the application is constructed and until the
\* watcher's first assignment; only the watcher's assignment changes it, no
\* bootstrap step and no get; the application is constructed once and has
\* one watcher, started at its construction.
C15_OnlyWatcherWritesMotd ==
  /\ [](wpc = "none" <=> app # "ok")
  /\ []((sets = <<>> /\ wpc # "store2") => motd = <<"", "">>)
  /\ [][motd' # motd => wpc \in {"store1", "store2"} /\ wpc' # wpc]_vars
  /\ [][app' # app => app = "none" /\ wpc = "none"]_vars
  /\ [][wpc = "none" /\ wpc' # "none" => wpc' = "watch" /\ app' = "ok"]_vars

\* The watcher has made its second assignment while a get is waiting for
\* the lock.
C15_Witness ==
  /\ app = "ok" /\ wpc = "unlock" /\ Len(sets) = 2 /\ motd = <<snap, snap>>
  /\ \E r \in Readers : readers[r].pc = "rlock"

GatewayCreated == gw.conn # "none" \/ gw.routes \/ gw.http # "none"

\* C16 as stated: the components come into being in the order state cell,
\* watcher, interceptor chain, RPC server, listener, gateway: none exists
\* while the one before it in that order does not.
C16_DependencyOrder ==
  /\ wpc # "none" => app = "ok"
  /\ variant = "guestbook" /\ srv.unary # <<>> => wpc # "none"
  /\ srv.state # "none" => srv.unary # <<>>
  /\ res.lis # "none" => srv.state # "none"
  /\ GatewayCreated => res.lis # "none"

\* C16 amended: every component is created before the steps that use it.
\* The server is created with its chain; the application, whose
\* construction takes the server, after the server, and the watcher with the
\* application; Serve is started once the server and the listener exist;
\* the gateway is created after Serve was started. The listener itself is
\* created before or after the server, depending on the bootstrap.
C16_CreatedBeforeUse ==
  /\ wpc # "none" <=> app = "ok"
  /\ app = "ok" => srv.state # "none"
  /\ srv.state # "none" => srv.unary # <<>> /\ srv.stream # <<>>
  /\ serveG # "none" => srv.state # "none" /\ res.lis = "open"
  /\ GatewayCreated => serveG # "none"

\* The guestbook gateway listens, with the server serving and the watcher
\* running.
C16_Witness ==
  /\ variant = "guestbook" /\ gw.http = "listening" /\ gw.routes
  /\ srv.state = "serving" /\ wpc # "none"

\* C17: a request that came in through the gateway runs a handler only as a
\* call on the RPC server over the gateway's ready connection, inside every
\* stage of the chain, recovery innermost; a panic of its handler leaves the
\* chain as the Internal error.
C17_GatewayCallsThroughChain ==
  \A c \in Calls :
    calls[c].via = "gw" =>
      /\ calls[c].st \in {"handler", "up"} \/ calls[c].panicked =>
           /\ calls[c].entered =
                <<"ctxtags", "opentracing", "prometheus", "logrus", "recovery">>
           /\ calls[c].entered = srv.unary
           /\ gw.conn = "ready" /\ srv.state = "serving"
      /\ Done(c) /\ calls[c].entered = <<>> =>
           calls[c].out.t = "err" /\ ~calls[c].panicked
      /\ Done(c) /\ calls[c].panicked => calls[c].out.code = "Internal"

\* A gateway request whose handler panicked has ended with the Internal
\* error, and another gateway request is in its handler.
C17_Witness ==
  \E c, d \in Calls :
    /\ calls[c].via = "gw" /\ Done(c) /\ calls[c].panicked
    /\ calls[c].seen["recovery"] = "PANIC" /\ calls[c].out.code = "Internal"
    /\ calls[d].via = "gw" /\ calls[d].st = "handler"

\* C18: no registration on the RPC server (the todo service, reflection,
\* grpc_prometheus.Register) runs once Serve has begun.
C18_RegistrationsBeforeServe ==
  ~srv.lateReg

\* C19: the watcher holds the lock of motd only across the assignment: while
\* it is blocked in Watch or is logging it neither holds nor has asked for
\* the lock, so a get that wants the read lock can take it; and once the
\* watcher has the lock it releases it.
C19_LockHeldOnlyAcrossAssignment ==
  /\ [](wpc \in {"none", "watch", "logerr", "logupd"} =>
         ~mu.writer /\ ~mu.pending)
  /\ [](mu.writer => wpc \in {"store1", "store2", "unlock"})
  /\ [](\A r \in Readers :
         Running /\ readers[r].pc = "rlock"
           /\ wpc \in {"watch", "logerr", "logupd"} => ENABLED Get_RLock(r))
  /\ (mu.writer ~> ~mu.writer)

\* After an assignment the watcher is blocked in Watch again while a get
\* holds the read lock and another is about to take it.
C19_Witness ==
  /\ wpc = "watch" /\ Len(sets) = 1 /\ ~mu.writer
  /\ \E q, r \in Readers :
       readers[q].pc = "load1" /\ readers[r].pc = "rlock"
====
